---- MODULE Spec2Model ----
(***************************************************************************)
(* Model of the sparse-register-tiling SpMM wrapper                         *)
(* (src/src/spmm_spreg_wrapper.cpp, src/include/spmm_spreg_wrapper.h).      *)
(*                                                                         *)
(* A caller owns one problem (CSR arrays, M, K, N, an output buffer C with  *)
(* ExtraRows rows after row M-1) and calls spmm_spreg_init,                 *)
(* spmm_spreg_execute, spmm_spreg_cleanup and spmm_spreg on it.  Doubles    *)
(* are modelled by integers (all products and sums are exact).  Buffers     *)
(* are row-major flat sequences; element (i, j) of a buffer with row        *)
(* length n is at position i*n + j + 1.  All dimensions of the model are    *)
(* small and positive, so no int expression of the source leaves the int    *)
(* range and M % M_R is the mathematical remainder.                         *)
(***************************************************************************)
EXTENDS Integers, Sequences, FiniteSets, TLC

\* ---------------------------------------------------------------- bounds
MaxM == 4          \* declared rows M range over 1..MaxM
KCols == 2         \* columns of A, rows of B
NCols == 2         \* dense width
MaxNnz == 2        \* rowPtr[M] ranges over 0..MaxNnz
MaxSeed == 2       \* the dense inputs B tried are GenB(0) .. GenB(MaxSeed)
ExtraRows == 1     \* rows of the caller's C after row M-1
MaxStale == 1      \* stale buffer contents tried are StaleBuf(_, 0..MaxStale)
MaxPadM == 130     \* the padding calculator alone is checked on 1..MaxPadM
MaxSizeStep == 6   \* the element counts are checked on 1..MaxSizeStep and on
                   \* INT_MAX - MaxSizeStep .. INT_MAX (and values between)

\* ------------------------------------------------------ program constants
M_R == 4

Null == "null"
NoB == << >>

\* ------------------------------------------------------------- variables
VARIABLES
    csr_val, indices, indptr,  \* the caller's CSR arrays
    M, K, N,                   \* the caller's declared dimensions
    hnd,       \* the handle the caller holds: Null or "h"
    rec,       \* the SpregHandle record
    mm,        \* the MatMulSpecialized executor
    scratch,   \* the internal_C allocation
    C,         \* the caller's output buffer, (M + ExtraRows) * N doubles
    Cpre,      \* C as it was when the last call started
    B,         \* the B the last call gave the kernel (NoB if it gave none)
    op,        \* the last call made
    arg,       \* the handle passed to it (Null if it takes none)
    ret,       \* what the last call returned: Null, "h", "void" or "fault"
    events,    \* what the last call did, in order
    ub,        \* some access so far left the bounds of its array
    heap,      \* several handles side by side: their records, executors
               \* and scratch buffers (used by SpecSteps)
    thr,       \* the execute call each calling thread is in (SpecSteps)
    sizes      \* the element counts a handle's calls compute (SpecSizes)

vars == <<csr_val, indices, indptr, M, K, N, hnd, rec, mm, scratch, C, Cpre,
          B, op, arg, ret, events, ub, heap, thr, sizes>>

\* ------------------------------------------------------ padding calculator
\* a plausible slip: round up only when M is not a multiple of M_R
PadRowsRoundUp(m) == ((m + M_R - 1) \div M_R) * M_R

\* int M_padded = M + (M_R - M % M_R)
PadRows(m) == m + (M_R - (m % M_R))

\* the library's own ingestion rule, as the wrapper documents it
pad_to_multiple_of(m, r) == m + (r - (m % r))

\* ------------------------------------------------------------ input data
\* row pointers: length m+1, start at 0, non-decreasing, at most MaxNnz entries
RowPtrs(m) ==
    { f \in [1..(m + 1) -> 0..MaxNnz] :
        /\ f[1] = 0
        /\ \A i \in 1..m : f[i] <= f[i + 1] }

\* the column indices tried with row pointers ptr: the p-th stored entry,
\* which lies in row i, is in column (i + p) mod k
CsrIndices(ptr, m, k) ==
    [p \in 1..ptr[m + 1] |->
        LET i == CHOOSE r \in 0..(m - 1) : ptr[r + 1] < p /\ p <= ptr[r + 2]
        IN (i + p) % k]

\* the values array of length len: the p-th stored value is p
CsrVals(len) == [p \in 1..len |-> p]

\* stale contents of a buffer of len doubles (nonzero, different in each cell)
StaleBuf(len, f) == [i \in 1..len |-> 100 + 10 * f + i]

\* the dense input number s, k x n doubles
GenB(s, k, n) == [i \in 1..(k * n) |-> (i * s) % 3]

\* the reference result: row i, column j of A x B computed from the CSR arrays
RECURSIVE RefSum(_, _, _, _, _, _, _)
RefSum(vals, idxs, b, n, j, p, last) ==
    IF p > last THEN 0
    ELSE vals[p] * b[idxs[p] * n + j + 1]
         + RefSum(vals, idxs, b, n, j, p + 1, last)

RefSpMM(vals, idxs, ptr, b, n, i, j) ==
    RefSum(vals, idxs, b, n, j, ptr[i + 1] + 1, ptr[i + 2])

\* ---------------------------------------------------- the kernel executor
NoMM == [status |-> "none", ready |-> FALSE, Mp |-> 0, K |-> 0, N |-> 0,
        A |-> << >>]

\* csr_val[p]; past the end of the caller's array the read yields whatever
\* lies there, here the value g
ReadVal(vals, p, g) == IF p <= Len(vals) THEN vals[p] ELSE g

\* entry (i, k) of the packed matrix: the stored values of row i in column k
RECURSIVE PackSum(_, _, _, _, _, _)
PackSum(vals, idxs, k, p, last, g) ==
    IF p > last THEN 0
    ELSE (IF idxs[p] = k THEN ReadVal(vals, p, g) ELSE 0)
         + PackSum(vals, idxs, k, p + 1, last, g)

\* inspection and packing: the rows x cols matrix, padded with empty rows to
\* mp rows, row-major
Pack(vals, idxs, ptr, rows, cols, mp, g) ==
    [e \in 1..(mp * cols) |->
        LET i == (e - 1) \div cols
            k == (e - 1) % cols
        IN IF i < rows
           THEN PackSum(vals, idxs, k, ptr[i + 1] + 1, ptr[i + 2], g)
           ELSE 0]

\* new MatMulType(M, K, N, csr_val, indptr, indices, ..., allow_row_padding):
\* the matrix is inspected and packed; the executor is not yet allocated
MatMulType(rows, cols, n, vals, ptr, idxs, g) ==
    LET mp == pad_to_multiple_of(rows, M_R)
    IN [status |-> "live", ready |-> FALSE, Mp |-> mp, K |-> cols, N |-> n,
        A |-> Pack(vals, idxs, ptr, rows, cols, mp, g)]

\* matmul->allocate_executor(N)
allocate_executor(m, n) == [m EXCEPT !.ready = TRUE, !.N = n]

RECURSIVE Dot(_, _, _, _, _)
Dot(m, b, i, j, k) ==
    IF k >= m.K THEN 0
    ELSE m.A[i * m.K + k + 1] * b[k * m.N + j + 1] + Dot(m, b, i, j, k + 1)

\* (*matmul)(target, B): target += A x B on rows 0..Mp-1 (beta = 1)
Kernel(m, target, b) ==
    [e \in 1..Len(target) |->
        LET i == (e - 1) \div m.N
            j == (e - 1) % m.N
        IN IF i < m.Mp THEN target[e] + Dot(m, b, i, j, 0) ELSE target[e]]

\* the kernel writes past the end of a target shorter than Mp rows
KernelOverrun(m, target) == m.Mp * m.N > Len(target)

\* --------------------------------------------------------- memset, memcpy
\* std::memset(buf, 0, count * sizeof(double))
Memset0(buf, count) ==
    [e \in 1..Len(buf) |-> IF e <= count THEN 0 ELSE buf[e]]

\* std::memcpy(dst, src, count * sizeof(double))
Memcpy(dst, src, count) ==
    [e \in 1..Len(dst) |-> IF e <= count /\ e <= Len(src) THEN src[e] ELSE dst[e]]

\* a memset or memcpy of count doubles leaves a buffer of len doubles
Overrun(len, count) == count > len \/ count < 0

\* ------------------------------------------------------------ the handle
\* struct SpregHandle
NoRec == [status |-> "none", matmul |-> Null, M |-> 0, K |-> 0, N |-> 0,
          M_padded |-> 0, internal_C |-> Null]

NoBuf == [status |-> "none", data |-> << >>]

\* delete of an object
Release(obj) == [obj EXCEPT !.status = "freed"]

\* a plausible slip: the scratch buffer is never freed
FreeBufLeak(buf) == buf

\* std::free(internal_C): the memory is gone with its contents
FreeBuf(buf) == [status |-> "freed", data |-> << >>]

\* a plausible slip: the null test is missing
IsNullNever(handle) == FALSE

\* if (!handle)
IsNull(handle) == handle = Null

\* Where a call of spmm_spreg_init can fail.  "id": get_executor_id or the
\* construction of its strings throws; "ctor": the constructor of
\* MatMulSpecialized (or the allocation of its memory) throws; "exec":
\* allocate_executor throws; "handle": new SpregHandle throws;
\* "scratch_null": std::aligned_alloc returns a null pointer.  Every fault
\* thrown is derived from std::exception.
Faults == {"none", "id", "ctor", "exec", "handle", "scratch_null"}

\* ------------------------------------------------------- spmm_spreg_init
\* M_padded * N, an int product, is the number of doubles asked of aligned_alloc
ScratchCount(mp, n) == mp * n

\* a plausible slip: the executor is not deleted when the allocation fails
OnAllocFailureLeak(h, m, oob) ==
    [ret |-> Null, rec |-> Release(h), mm |-> m, scratch |-> NoBuf,
     ub |-> oob,
     events |-> <<"get_executor_id", "new_matmul", "allocate_executor",
                  "new_handle", "aligned_alloc", "delete_handle">>]

\* if (!handle->internal_C) { delete matmul; delete handle; return nullptr; }
OnAllocFailure(h, m, oob) ==
    [ret |-> Null, rec |-> Release(h), mm |-> Release(m), scratch |-> NoBuf,
     ub |-> oob,
     events |-> <<"get_executor_id", "new_matmul", "allocate_executor",
                  "new_handle", "aligned_alloc", "delete_matmul",
                  "delete_handle">>]

\* The call's effect: what it returns and the objects it leaves behind.
\* g stands for the contents of memory the program never wrote.  A fault
\* thrown inside the try block is caught and null is returned; what was
\* allocated before the throw stays as it is.
InitEff(vals, idxs, ptr, rows, cols, n, fault, g) ==
    LET m0 == MatMulType(rows, cols, n, vals, ptr, idxs, g)
        m1 == allocate_executor(m0, n)
        mp == PadRows(rows)
        oob == ptr[rows + 1] > Len(vals)
        h == [status |-> "live", matmul |-> "mm", M |-> rows, K |-> cols,
              N |-> n, M_padded |-> mp,
              internal_C |-> IF mp # rows THEN "buf" ELSE Null]
        none == [ret |-> Null, rec |-> NoRec, mm |-> NoMM, scratch |-> NoBuf,
                 events |-> << >>, ub |-> FALSE]
    IN  CASE fault = "id" ->
               \* line 70 is outside the try block: the fault leaves the call
               [none EXCEPT !.ret = "fault", !.events = <<"get_executor_id">>]
          [] fault = "ctor" ->
               [none EXCEPT !.events = <<"get_executor_id", "new_matmul">>]
          [] fault = "exec" ->
               [none EXCEPT !.mm = m0, !.ub = oob,
                            !.events = <<"get_executor_id", "new_matmul",
                                         "allocate_executor">>]
          [] fault = "handle" ->
               [none EXCEPT !.mm = m1, !.ub = oob,
                            !.events = <<"get_executor_id", "new_matmul",
                                         "allocate_executor", "new_handle">>]
          [] fault = "scratch_null" /\ mp # rows ->
               OnAllocFailure(h, m1, oob)
          [] OTHER ->
               [ret |-> "h", rec |-> h, mm |-> m1,
                scratch |-> IF mp # rows
                            THEN [status |-> "live",
                                  data |-> StaleBuf(ScratchCount(mp, n), g)]
                            ELSE NoBuf,
                ub |-> oob,
                events |-> IF mp # rows
                           THEN <<"get_executor_id", "new_matmul",
                                  "allocate_executor", "new_handle",
                                  "aligned_alloc">>
                           ELSE <<"get_executor_id", "new_matmul",
                                  "allocate_executor", "new_handle">>]

\* ---------------------------------------------------- spmm_spreg_execute
\* a plausible slip: nothing is zeroed before the kernel runs
ZeroCountNone(h) == 0

\* rows_to_zero * h->N: the doubles zeroed before the kernel runs
ZeroCount(h) ==
    LET rows_to_zero == IF h.internal_C # Null THEN h.M_padded ELSE h.M
    IN rows_to_zero * h.N

\* a plausible slip: the padded rows are copied back too
CopyCountPadded(h) == h.M_padded * h.N

\* a plausible slip: the last row is not copied back
CopyCountShort(h) == (h.M - 1) * h.N

\* h->M * h->N: the doubles copied back to the caller's C
CopyCount(h) == h.M * h.N

\* A handle that is not null is dereferenced: if it is not the live record
\* (a dangling or a stray pointer) the call's behaviour is undefined.
ExecuteEff(handle, h, m, buf, c, b) ==
    IF IsNull(handle)
    THEN [C |-> c, B |-> NoB, scratch |-> buf, events |-> <<"log_null">>,
          ub |-> FALSE]
    ELSE IF h.status # "live" \/ m.status # "live"
    THEN [C |-> c, B |-> NoB, scratch |-> buf, events |-> <<"deref">>,
          ub |-> TRUE]
    ELSE
    LET useBuf == h.internal_C # Null
        C_exec == IF useBuf THEN buf.data ELSE c
        zeroed == Memset0(C_exec, ZeroCount(h))
        result == Kernel(m, zeroed, b)
        bad == \/ Overrun(Len(C_exec), ZeroCount(h))
               \/ KernelOverrun(m, C_exec)
               \/ useBuf /\ (buf.status # "live"
                             \/ Overrun(Len(c), CopyCount(h))
                             \/ Overrun(Len(buf.data), CopyCount(h)))
    IN  IF useBuf
        THEN [C |-> Memcpy(c, result, CopyCount(h)), B |-> b,
              scratch |-> [buf EXCEPT !.data = result],
              events |-> <<"memset_scratch", "kernel_scratch", "memcpy_C">>,
              ub |-> bad]
        ELSE [C |-> result, B |-> b, scratch |-> buf,
              events |-> <<"memset_C", "kernel_C">>, ub |-> bad]

\* ---------------------------------------------------- spmm_spreg_cleanup
\* releasing what is not live (a second release, a stray pointer) is undefined
CleanupEff(handle, h, m, buf) ==
    IF IsNull(handle)
    THEN [rec |-> h, mm |-> m, scratch |-> buf, events |-> << >>, ub |-> FALSE]
    ELSE [rec |-> Release(h), mm |-> Release(m),
          scratch |-> IF h.internal_C # Null THEN FreeBuf(buf) ELSE buf,
          events |-> IF h.internal_C # Null
                     THEN <<"free_scratch", "delete_matmul", "delete_handle">>
                     ELSE <<"delete_matmul", "delete_handle">>,
          ub |-> \/ h.status # "live" \/ m.status # "live"
                 \/ h.internal_C # Null /\ buf.status # "live"]

\* ------------------------------------------------------------ the caller
\* Initially the caller has its CSR arrays, its dimensions and an output
\* buffer with stale contents, and nothing is allocated.  Later calls find
\* in C what the earlier calls left there.  The values array
\* may be one longer or one shorter than rowPtr[M] says.
Init ==
    /\ M \in 1..MaxM
    /\ K = KCols
    /\ N = NCols
    /\ indptr \in RowPtrs(M)
    /\ indices = CsrIndices(indptr, M, K)
    /\ \E len \in {indptr[M + 1] - 1, indptr[M + 1], indptr[M + 1] + 1} :
          /\ len >= 0
          /\ csr_val = CsrVals(len)
    /\ hnd = Null
    /\ rec = NoRec
    /\ mm = NoMM
    /\ scratch = NoBuf
    /\ C = StaleBuf((M + ExtraRows) * N, 0)
    /\ Cpre = C
    /\ B = NoB
    /\ op = "none"
    /\ arg = Null
    /\ ret = "none"
    /\ events = << >>
    /\ ub = FALSE
    /\ heap = << >>
    /\ thr = << >>
    /\ sizes = << >>

Inputs == <<csr_val, indices, indptr, M, K, N>>

\* the state of the other views of the program, which one caller with one
\* handle does not use
Others == <<heap, thr, sizes>>

\* the B tried in a call: every GenB(s) when the kernel will run, one
\* otherwise (the call does not read it)
Seeds(runs) == IF runs THEN 0..MaxSeed ELSE {0}

\* The caller makes a next call only while the process runs as defined: a
\* fault that left an extern "C" function, or an access outside an array,
\* ends what can be said about it.
Running == ret # "fault" /\ ~ub

\* the contents tried for memory the program never wrote: every
\* StaleBuf(_, g) and stray value g when the call can allocate the scratch
\* buffer or read past the end of csr_val, one otherwise
Unwritten(fault) ==
    IF fault = "none" \/ (indptr[M + 1] > Len(csr_val)
                          /\ fault \notin {"id", "ctor"})
    THEN 0..MaxStale ELSE {0}

\* handle = spmm_spreg_init(csr_val, indices, indptr, M, K, N), called while
\* the caller holds no handle
InitDone(r) ==
    /\ rec' = r.rec
    /\ mm' = r.mm
    /\ scratch' = r.scratch
    /\ ret' = r.ret
    /\ hnd' = IF r.ret = "h" THEN "h" ELSE Null
    /\ events' = r.events
    /\ ub' = r.ub

spmm_spreg_init ==
    /\ Running
    /\ hnd = Null
    /\ \E fault \in Faults : \E g \in Unwritten(fault) :
          InitDone(InitEff(csr_val, indices, indptr, M, K, N, fault, g))
    /\ op' = "init"
    /\ arg' = Null
    /\ Cpre' = C
    /\ B' = NoB
    /\ UNCHANGED <<Inputs, C, Others>>

\* spmm_spreg_execute(handle, C, B) with whatever handle the caller holds:
\* the one a successful init returned, or null (before any init, after a
\* failed init, after cleanup)
ExecuteDone(r) ==
    /\ C' = r.C
    /\ B' = r.B
    /\ scratch' = r.scratch
    /\ events' = r.events
    /\ ub' = r.ub

spmm_spreg_execute ==
    /\ Running
    /\ \E s \in Seeds(hnd # Null) :
          ExecuteDone(ExecuteEff(hnd, rec, mm, scratch, C, GenB(s, K, N)))
    /\ op' = "execute"
    /\ arg' = hnd
    /\ ret' = "void"
    /\ Cpre' = C
    /\ UNCHANGED <<Inputs, hnd, rec, mm, Others>>

\* spmm_spreg_cleanup(handle) with whatever handle the caller holds; the
\* caller drops a handle it has passed to cleanup
CleanupDone(r) ==
    /\ rec' = r.rec
    /\ mm' = r.mm
    /\ scratch' = r.scratch
    /\ events' = r.events
    /\ ub' = r.ub

spmm_spreg_cleanup ==
    /\ Running
    /\ CleanupDone(CleanupEff(hnd, rec, mm, scratch))
    /\ op' = "cleanup"
    /\ arg' = hnd
    /\ hnd' = Null
    /\ ret' = "void"
    /\ Cpre' = C
    /\ B' = NoB
    /\ UNCHANGED <<Inputs, C, Others>>

\* spmm_spreg(C, csr_val, indices, indptr, B, M, K, N), called while the
\* caller holds no handle:
\*     handle = spmm_spreg_init(...);
\*     if (handle) { spmm_spreg_execute(handle, C, B);
\*                   spmm_spreg_cleanup(handle); }
\* i, e and d are the effects of the three calls
RunOnceResult(i, e, d, c) ==
    IF i.ret = "fault"
    THEN \* the fault leaves spmm_spreg as it left spmm_spreg_init
         [ret |-> "fault", C |-> c, B |-> NoB, rec |-> i.rec, mm |-> i.mm,
          scratch |-> i.scratch, ub |-> i.ub,
          events |-> <<"init">> \o i.events]
    ELSE IF i.ret # Null
    THEN [ret |-> "void", C |-> e.C, B |-> e.B, rec |-> d.rec,
          mm |-> d.mm, scratch |-> d.scratch,
          ub |-> (i.ub \/ e.ub \/ d.ub),
          events |-> <<"init">> \o i.events \o <<"got_handle", "execute">>
                     \o e.events \o <<"cleanup">> \o d.events]
    ELSE [ret |-> "void", C |-> c, B |-> NoB, rec |-> i.rec, mm |-> i.mm,
          scratch |-> i.scratch, ub |-> i.ub,
          events |-> <<"init">> \o i.events \o <<"got_null">>]

\* a plausible slip: the handle is not cleaned up
RunOnceNoCleanup(i, e, c) ==
    RunOnceResult(i, e, [rec |-> i.rec, mm |-> i.mm, scratch |-> e.scratch,
                         events |-> << >>, ub |-> FALSE], c)

RunOnceCleanup(i, e, c) ==
    RunOnceResult(i, e, CleanupEff(i.ret, i.rec, i.mm, e.scratch), c)

RunOnceExecute(i, c, b) ==
    RunOnceCleanup(i, ExecuteEff(i.ret, i.rec, i.mm, i.scratch, c, b), c)

RunOnceEff(vals, idxs, ptr, rows, cols, n, c, b, fault, g) ==
    RunOnceExecute(InitEff(vals, idxs, ptr, rows, cols, n, fault, g), c, b)

RunOnceDone(r) ==
    /\ C' = r.C
    /\ B' = r.B
    /\ rec' = r.rec
    /\ mm' = r.mm
    /\ scratch' = r.scratch
    /\ ret' = r.ret
    /\ events' = r.events
    /\ ub' = r.ub

spmm_spreg ==
    /\ Running
    /\ hnd = Null
    /\ \E fault \in Faults : \E g \in Unwritten(fault) :
       \E s \in Seeds(fault = "none") :
          RunOnceDone(RunOnceEff(csr_val, indices, indptr, M, K, N, C,
                                 GenB(s, K, N), fault, g))
    /\ op' = "run_once"
    /\ arg' = Null
    /\ Cpre' = C
    /\ UNCHANGED <<Inputs, hnd, Others>>

Next ==
    \/ spmm_spreg_init
    \/ spmm_spreg_execute
    \/ spmm_spreg_cleanup
    \/ spmm_spreg

Spec == Init /\ [][Next]_vars

\* ------------------------------------------------ the padding calculator
\* The computation of line 93 on its own, for every M in 1..MaxPadM: the
\* padded row count is recorded in the handle record.
InitPad ==
    /\ M \in 1..MaxPadM
    /\ K = KCols
    /\ N = NCols
    /\ indptr = [i \in 1..(M + 1) |-> 0]
    /\ indices = << >>
    /\ csr_val = << >>
    /\ hnd = Null
    /\ rec = NoRec
    /\ mm = NoMM
    /\ scratch = NoBuf
    /\ C = << >>
    /\ Cpre = << >>
    /\ B = NoB
    /\ op = "none"
    /\ arg = Null
    /\ ret = "none"
    /\ events = << >>
    /\ ub = FALSE
    /\ heap = << >>
    /\ thr = << >>
    /\ sizes = << >>

ComputePadding ==
    /\ op = "none"
    /\ rec' = [NoRec EXCEPT !.M = M, !.M_padded = PadRows(M)]
    /\ op' = "pad"
    /\ UNCHANGED <<Inputs, hnd, mm, scratch, C, Cpre, B, arg, ret, events, ub,
                   Others>>

SpecPad == InitPad /\ [][ComputePadding]_vars

\* --------------------------------------- several handles, several threads
\* Two handles side by side and two threads calling spmm_spreg_execute, one
\* statement of its body at a time.  Every handle is created by a successful
\* spmm_spreg_init for a matrix of 1 or M_R rows; every execute call brings
\* its own output buffer C and one of two dense inputs B.  The caller keeps the contract of cleanup: it
\* destroys a handle only while no execute call on it is running.
Handles == {"h1", "h2"}
Threads == {"1", "2"}
StepRows == {1, M_R}

\* the row pointers of the matrix with m rows: one stored entry in row 0,
\* the others in the last row
StepPtr(m) ==
    [i \in 1..(m + 1) |-> IF i = 1 THEN 0 ELSE IF i <= m THEN 1 ELSE MaxNnz]

StepIdx(m, k) == CsrIndices(StepPtr(m), m, k)

\* a plausible slip: every handle is given the same scratch memory
BufAddrShared(h) == "h1"

\* std::aligned_alloc returns memory no other live allocation occupies: the
\* scratch buffer of the handle in slot h is at the address named h
BufAddr(h) == h

EmptyHeap ==
    [rec |-> [h \in Handles |-> NoRec],
     mm |-> [h \in Handles |-> NoMM],
     buf |-> [a \in Handles |-> NoBuf]]

NoCall ==
    [pc |-> "idle", h |-> Null, m |-> 0, b |-> NoB, C |-> << >>,
     Cpre |-> << >>, target |-> Null, shared |-> FALSE, steps |-> << >>]

\* a thread is inside the body of spmm_spreg_execute
Mid(t) == thr[t].pc \in {"selected", "zeroed", "kernel_done"}

\* a plausible slip: a write to the scratch buffer also drops the handle's
\* reference to it
StoreScratchDetach(hp, h, data) ==
    [hp EXCEPT !.buf[hp.rec[h].internal_C].data = data,
               !.rec[h].internal_C = Null]

\* a write through C_exec into the scratch buffer of handle h
StoreScratch(hp, h, data) ==
    [hp EXCEPT !.buf[hp.rec[h].internal_C].data = data]

\* what a successful spmm_spreg_init leaves in slot h
Placed(hp, h, r) ==
    [hp EXCEPT !.rec[h] = [r.rec EXCEPT !.matmul = h,
                                        !.internal_C =
                                            IF r.rec.internal_C # Null
                                            THEN BufAddr(h) ELSE Null],
               !.mm[h] = r.mm,
               !.buf[BufAddr(h)] = r.scratch]

InitSteps ==
    /\ M = 1
    /\ K = KCols
    /\ N = NCols
    /\ indptr = StepPtr(1)
    /\ indices = StepIdx(1, KCols)
    /\ csr_val = CsrVals(MaxNnz)
    /\ hnd = Null
    /\ rec = NoRec
    /\ mm = NoMM
    /\ scratch = NoBuf
    /\ C = << >>
    /\ Cpre = << >>
    /\ B = NoB
    /\ op = "none"
    /\ arg = Null
    /\ ret = "none"
    /\ events = << >>
    /\ ub = FALSE
    /\ heap = EmptyHeap
    /\ thr = [t \in Threads |-> NoCall]
    /\ sizes = << >>

StepFrame ==
    UNCHANGED <<Inputs, hnd, rec, mm, scratch, C, Cpre, B, op, arg, ret, events,
                sizes>>

\* spmm_spreg_init succeeds and its record lands in the unused slot h
Create(h) ==
    /\ ~ub
    /\ heap.rec[h].status = "none"
    /\ \E m \in StepRows :
          heap' = Placed(heap, h,
                         InitEff(CsrVals(MaxNnz), StepIdx(m, K), StepPtr(m),
                                 m, K, N, "none", 0))
    /\ UNCHANGED <<thr, ub>>
    /\ StepFrame

\* the result of spmm_spreg_cleanup on the handle in slot h
Destroyed(hp, h, r) ==
    [hp EXCEPT !.rec[h] = r.rec, !.mm[h] = r.mm,
               !.buf[hp.rec[h].internal_C] = r.scratch]

\* spmm_spreg_cleanup on the handle in slot h, no execute call running on it
Destroy(h) ==
    /\ ~ub
    /\ heap.rec[h].status = "live"
    /\ \A t \in Threads : ~(Mid(t) /\ thr[t].h = h)
    /\ heap' = Destroyed(heap, h,
                         CleanupEff("h", heap.rec[h], heap.mm[h],
                                    heap.buf[heap.rec[h].internal_C]))
    /\ UNCHANGED <<thr, ub>>
    /\ StepFrame

\* a plausible variant: execute waits while another call is inside on h
LockedByOther(t, h) == \E v \in Threads \ {t} : Mid(v) /\ thr[v].h = h

\* spmm_spreg_execute takes no lock: nothing makes a call on h wait
Locked(t, h) == FALSE

\* lines 129-137: thread t enters spmm_spreg_execute(h, C, B) with a live
\* handle and selects the target
Begin(t, h) ==
    /\ ~ub
    /\ ~Mid(t)
    /\ ~Locked(t, h)
    /\ heap.rec[h].status = "live"
    /\ \E s \in {1, MaxSeed} :
          thr' = [u \in Threads |->
                    IF u = t
                    THEN [pc |-> "selected", h |-> h, m |-> heap.rec[h].M,
                          b |-> GenB(s, K, N),
                          C |-> StaleBuf((heap.rec[h].M + ExtraRows) * N, 0),
                          Cpre |-> StaleBuf((heap.rec[h].M + ExtraRows) * N, 0),
                          target |-> IF heap.rec[h].internal_C # Null
                                     THEN "scratch" ELSE "C",
                          shared |-> \E v \in Threads \ {t} :
                                        Mid(v) /\ thr[v].h = h,
                          steps |-> <<"select">>]
                    ELSE IF Mid(u) /\ thr[u].h = h
                    THEN [thr[u] EXCEPT !.shared = TRUE]
                    ELSE thr[u]]
    /\ UNCHANGED <<heap, ub>>
    /\ StepFrame

\* what thread t's target holds
TargetData(t) ==
    IF thr[t].target = "scratch"
    THEN heap.buf[heap.rec[thr[t].h].internal_C].data
    ELSE thr[t].C

\* thread t's target is given the contents data by the step named step
WriteTarget(t, data, step, bad) ==
    /\ IF thr[t].target = "scratch"
       THEN /\ heap' = StoreScratch(heap, thr[t].h, data)
            /\ thr' = [thr EXCEPT ![t].pc = step,
                                  ![t].steps = Append(@, step)]
       ELSE /\ heap' = heap
            /\ thr' = [thr EXCEPT ![t].pc = step, ![t].C = data,
                                  ![t].steps = Append(@, step)]
    /\ ub' = bad

\* lines 140-141: the memset
Zero(t) ==
    /\ ~ub
    /\ thr[t].pc = "selected"
    /\ WriteTarget(t, Memset0(TargetData(t), ZeroCount(heap.rec[thr[t].h])),
                   "zeroed",
                   Overrun(Len(TargetData(t)), ZeroCount(heap.rec[thr[t].h])))
    /\ StepFrame

\* line 144: the kernel
RunKernel(t) ==
    /\ ~ub
    /\ thr[t].pc = "zeroed"
    /\ WriteTarget(t, Kernel(heap.mm[thr[t].h], TargetData(t), thr[t].b),
                   "kernel_done",
                   KernelOverrun(heap.mm[thr[t].h], TargetData(t)))
    /\ StepFrame

\* lines 147-150: the copy back, and the return
CopyBack(t) ==
    /\ ~ub
    /\ thr[t].pc = "kernel_done"
    /\ LET h == heap.rec[thr[t].h]
       IN IF h.internal_C # Null
          THEN /\ thr' = [thr EXCEPT
                            ![t].pc = "done",
                            ![t].C = Memcpy(@, heap.buf[h.internal_C].data,
                                            CopyCount(h)),
                            ![t].steps = Append(@, "copy_back")]
               /\ ub' = (\/ Overrun(Len(thr[t].C), CopyCount(h))
                         \/ Overrun(Len(heap.buf[h.internal_C].data),
                                    CopyCount(h)))
          ELSE /\ thr' = [thr EXCEPT ![t].pc = "done"]
               /\ ub' = ub
    /\ UNCHANGED heap
    /\ StepFrame

NextSteps ==
    \/ \E h \in Handles : Create(h)
    \/ \E h \in Handles : Destroy(h)
    \/ \E t \in Threads, h \in Handles : Begin(t, h)
    \/ \E t \in Threads : Zero(t)
    \/ \E t \in Threads : RunKernel(t)
    \/ \E t \in Threads : CopyBack(t)

SpecSteps == InitSteps /\ [][NextSteps]_vars

\* ------------------------------------------------------ element counts
\* The int computations of a handle's calls on their own: M_padded (line
\* 93), the doubles asked of aligned_alloc (line 105), the doubles zeroed
\* (lines 140-141) and the doubles copied back (line 149), for dimensions
\* up to INT_MAX.  Each is computed in int before it is widened to size_t
\* for the multiplication by sizeof(double).  An int addition or product
\* whose value leaves the int range is undefined: its result is any of
\* IntAny.  No buffer is allocated here and the CSR arrays are not read.
IntMax == 2147483647

\* the dimensions tried: the first MaxSizeStep positive ints, the last ones
\* up to INT_MAX, and values around 2^15, sqrt(2^31) and 2^16
SizeDims ==
    (1..MaxSizeStep) \cup {IntMax - d : d \in 0..MaxSizeStep}
        \cup {32767, 32768, 46340, 46341, 65535, 65536}

\* what an int expression whose value left the int range may yield
IntAny == {-IntMax - 1, 0, IntMax}

\* a + b stays in the int range (a, b >= 0)
IntAddFits(a, b) == a <= IntMax - b

\* a * b stays in the int range (b >= 1; a >= 0 or a in IntAny)
IntMulFits(a, b) ==
    b = 1 \/ (a <= IntMax \div b /\ a >= -(IntMax \div b))

\* the results tried for an int expression: its value if it fits (x is
\* then not used), else every element of IntAny
Outcomes(fits) == IF fits THEN {0} ELSE IntAny

\* int M_padded = M + (M_R - M % M_R), M > 0
PadRowsInt(m, x) ==
    IF IntAddFits(m, M_R - (m % M_R)) THEN PadRows(m) ELSE x

\* the handle record of dimensions m, n with padded row count mp
SizedRec(m, n, mp) ==
    [NoRec EXCEPT !.M = m, !.N = n, !.M_padded = mp,
                  !.internal_C = IF mp # m THEN "buf" ELSE Null]

\* the rows zeroed: rows_to_zero of line 140
RowsToZero(h) == IF h.internal_C # Null THEN h.M_padded ELSE h.M

SizesOf(h, xa, xz, xc) ==
    [M_padded |-> h.M_padded,
     alloc |-> IF IntMulFits(h.M_padded, h.N)
               THEN ScratchCount(h.M_padded, h.N) ELSE xa,
     zero |-> IF IntMulFits(RowsToZero(h), h.N) THEN ZeroCount(h) ELSE xz,
     copy |-> IF IntMulFits(h.M, h.N) THEN CopyCount(h) ELSE xc,
     wrapped |-> \/ ~IntAddFits(h.M, M_R - (h.M % M_R))
                 \/ ~IntMulFits(h.M_padded, h.N)
                 \/ ~IntMulFits(RowsToZero(h), h.N)
                 \/ ~IntMulFits(h.M, h.N)]

InitSizes ==
    /\ M \in SizeDims
    /\ K = KCols
    /\ N \in SizeDims
    /\ indptr = << >>
    /\ indices = << >>
    /\ csr_val = << >>
    /\ hnd = Null
    /\ rec = NoRec
    /\ mm = NoMM
    /\ scratch = NoBuf
    /\ C = << >>
    /\ Cpre = << >>
    /\ B = NoB
    /\ op = "none"
    /\ arg = Null
    /\ ret = "none"
    /\ events = << >>
    /\ ub = FALSE
    /\ heap = << >>
    /\ thr = << >>
    /\ sizes = << >>

ComputeSizes ==
    /\ op = "none"
    /\ \E xp \in Outcomes(IntAddFits(M, M_R - (M % M_R))) :
          /\ rec' = SizedRec(M, N, PadRowsInt(M, xp))
          /\ \E xa \in Outcomes(IntMulFits(rec'.M_padded, N)),
                xz \in Outcomes(IntMulFits(RowsToZero(rec'), N)),
                xc \in Outcomes(IntMulFits(M, N)) :
                sizes' = SizesOf(rec', xa, xz, xc)
    /\ ub' = sizes'.wrapped
    /\ op' = "sizes"
    /\ UNCHANGED <<Inputs, hnd, mm, scratch, C, Cpre, B, arg, ret, events,
                   heap, thr>>

SpecSizes == InitSizes /\ [][ComputeSizes]_vars

\* ================================================================ claims

\* C4: for every M > 0 the padded row count computed by create is
\* M + (4 - M mod 4): a multiple of 4, strictly greater than M, at most 4
\* more than M and never M itself, also when M is a multiple of 4
\* (M = 8 and M = 10 both give 12).
C4_PaddingAlwaysAdded ==
    op = "pad" =>
        /\ rec.M_padded = M + (4 - (M % 4))
        /\ rec.M_padded % 4 = 0
        /\ rec.M_padded > M
        /\ 1 <= rec.M_padded - M /\ rec.M_padded - M <= 4
        /\ rec.M_padded # M
        /\ (M = 8 => rec.M_padded = 12)
        /\ (M = 10 => rec.M_padded = 12)

\* a multiple of 4 has been padded by a full tile
C4_Witness == op = "pad" /\ M = 8 /\ rec.M_padded = 12

\* the last call ran the kernel for a handle of the caller's matrix: an
\* execute call on the handle init returned, or a run_once whose create
\* succeeded
Executed ==
    \/ op = "execute" /\ arg # Null
    \/ op = "run_once" /\ "got_handle" \in {events[x] : x \in DOMAIN events}

\* C1: after an execute call on a valid handle (alone or inside run_once),
\* whatever C held before, every element of rows 0..M-1 of C is the
\* element of A x B computed from the CSR arrays the handle was created for.
C1_ExecuteComputesProduct ==
    (Executed /\ ~ub) =>
        /\ Len(C) = (M + ExtraRows) * N
        /\ \A i \in 0..(M - 1), j \in 0..(N - 1) :
              C[i * N + j + 1] = RefSpMM(csr_val, indices, indptr, B, N, i, j)

\* an execute call on a handle for a matrix with 4 rows (padded to 8)
\* replaced stale contents of C by a product that is not zero
C1_Witness ==
    /\ op = "execute" /\ arg # Null /\ ~ub
    /\ M = 4
    /\ Cpre = StaleBuf((M + ExtraRows) * N, 0)
    /\ \E e \in 1..(M * N) : C[e] # 0 /\ C[e] # Cpre[e]

\* C3: every element of the caller's C in a row >= M holds after an execute
\* call (alone or inside run_once) what it held before: the padded rows the
\* kernel wrote stay in the scratch buffer.
C3_ScratchIsolation ==
    (Executed /\ ~ub) =>
        /\ Len(C) = Len(Cpre)
        /\ Len(C) > M * N
        /\ \A e \in (M * N + 1)..Len(C) : C[e] = Cpre[e]

\* an execute call changed rows 0..M-1 of a C whose rows >= M hold stale
\* data, while the kernel had written the padded rows of the scratch buffer
C3_Witness ==
    /\ op = "execute" /\ arg # Null /\ ~ub
    /\ \E e \in 1..(M * N) : C[e] # Cpre[e]
    /\ \E e \in (M * N + 1)..Len(C) : C[e] > 100
    /\ scratch.status = "live"
    /\ Len(scratch.data) = rec.M_padded * N
    /\ \A e \in (M * N + 1)..Len(scratch.data) : scratch.data[e] = 0

\* what the kernel of executor m leaves in a target of rows x n zeros
FreshResult(m, rows, n, b) == Kernel(m, [e \in 1..(rows * n) |-> 0], b)

\* C2: the rows 0..M-1 of C after an execute call on a valid handle are
\* what the handle's executor computes from that call's B on a zeroed
\* target, whatever earlier calls, their B, the previous C or the scratch
\* buffer held; and an execute call with the B of the execute call before
\* it leaves rows 0..M-1 of C as that call left them.
C2_NoCrossCallAccumulation ==
    [][ (op' = "execute" /\ arg' # Null /\ ~ub') =>
          /\ \A e \in 1..(M * N) :
                C'[e] = FreshResult(mm', rec'.M_padded, N, B')[e]
          /\ (op = "execute" /\ arg # Null /\ B' = B) =>
                \A e \in 1..(M * N) : C'[e] = C[e] ]_vars

\* an execute call found in C the result of an earlier call with another B
\* and replaced it
C2_Witness ==
    /\ op = "execute" /\ arg # Null /\ ~ub
    /\ \A e \in 1..(M * N) : Cpre[e] < 100
    /\ \E e \in 1..(M * N) : Cpre[e] # 0 /\ C[e] # Cpre[e]
    /\ \E e \in 1..(M * N) : C[e] # 0

\* C5: a call of spmm_spreg_execute with a null handle writes no element of
\* C, does not run the kernel and touches no object; a call of
\* spmm_spreg_cleanup with a null handle releases and touches nothing.
C5_NullHandleSafety ==
    [][ /\ (op' = "execute" /\ arg' = Null) =>
              /\ C' = C /\ B' = NoB /\ events' = <<"log_null">> /\ ~ub'
              /\ UNCHANGED <<rec, mm, scratch>>
        /\ (op' = "cleanup" /\ arg' = Null) =>
              /\ events' = << >> /\ ~ub'
              /\ UNCHANGED <<rec, mm, scratch, C>> ]_vars

\* cleanup was called with a null handle while C held a result and an
\* executor was allocated (left behind by a failed init)
C5_Witness ==
    /\ op = "cleanup" /\ arg = Null
    /\ mm.status = "live"
    /\ \E e \in 1..(M * N) : C[e] # 0 /\ C[e] < 100

C7_NoPropagatedFault ==
    op = "init" => ret \in {"h", Null}

\* C8 (as claimed): a call of spmm_spreg_init with CSR arrays whose values
\* array is not rowPtr[M] long returns null, and no access leaves an array
\* (stated for the calls that return).
C8_MismatchYieldsNull ==
    (op = "init" /\ ret # "fault" /\ indptr[M + 1] # Len(csr_val)) =>
        (ret = Null /\ ~ub)

\* the calls of the wrapper's own functions among the events of a call
IsCall(x) == x \in {"init", "execute", "cleanup"}
Happened(x) == x \in {events[p] : p \in DOMAIN events}

\* C9: a run_once call whose create succeeds makes exactly the calls init,
\* execute, cleanup, in this order, on that handle, and when it returns the
\* handle record, the executor and the scratch buffer are released; a
\* run_once call whose create fails makes neither the execute nor the
\* cleanup call and leaves C as it was.
C9_RunOnceSequence ==
    op = "run_once" =>
        /\ Happened("got_handle") =>
              /\ SelectSeq(events, IsCall) = <<"init", "execute", "cleanup">>
              /\ Happened("kernel_scratch") \/ Happened("kernel_C")
              /\ rec.status = "freed"
              /\ mm.status = "freed"
              /\ scratch.status # "live"
              /\ hnd = Null
              /\ ret = "void"
        /\ ~Happened("got_handle") =>
              /\ SelectSeq(events, IsCall) = <<"init">>
              /\ C = Cpre
              /\ B = NoB

\* a run_once call computed a product that is not zero and released what
\* it had created
C9_Witness ==
    /\ op = "run_once" /\ Happened("got_handle")
    /\ \E e \in 1..(M * N) : C[e] # 0 /\ C[e] # Cpre[e]
    /\ mm.status = "freed" /\ scratch.status = "freed"

\* C10: a cleanup call on a handle releases the scratch buffer (if there
\* is one), the executor and the handle record, each live before and
\* released after, the scratch buffer and the executor before the handle
\* record, nothing twice; an execute call releases and reallocates nothing.
C10_ReleasedExactlyOnce ==
    [][ /\ (op' = "cleanup" /\ arg' # Null) =>
              /\ rec.status = "live" /\ rec'.status = "freed"
              /\ mm.status = "live" /\ mm'.status = "freed"
              /\ rec.internal_C # Null =>
                    /\ scratch.status = "live" /\ scratch'.status = "freed"
                    /\ events' = <<"free_scratch", "delete_matmul",
                                   "delete_handle">>
              /\ rec.internal_C = Null =>
                    /\ scratch' = scratch
                    /\ events' = <<"delete_matmul", "delete_handle">>
              /\ ~ub'
              /\ hnd' = Null
        /\ op' = "execute" =>
              /\ rec' = rec /\ mm' = mm
              /\ scratch'.status = scratch.status
              /\ Len(scratch'.data) = Len(scratch.data)
              /\ \A p \in DOMAIN events' :
                    events'[p] \notin {"free_scratch", "delete_matmul",
                                       "delete_handle", "aligned_alloc",
                                       "new_matmul", "new_handle"} ]_vars

\* cleanup released the objects of a handle that execute calls had used
C10_Witness ==
    /\ op = "cleanup" /\ arg # Null
    /\ rec.status = "freed" /\ mm.status = "freed" /\ scratch.status = "freed"
    /\ \E e \in 1..(M * N) : C[e] # 0 /\ C[e] < 100

\* the scratch buffer of the handle a thread record c names, in heap hp
ScratchOf(hp, c) == hp.buf[hp.rec[c.h].internal_C].data

\* C11: every execute call on a valid handle goes through its steps in the
\* order select target, zero, kernel, copy back.  The target selected is the
\* scratch buffer if the handle has one, else the caller's C; the zeroing
\* clears exactly M_padded x N doubles of the scratch buffer (all of it,
\* nothing past it) or exactly M x N doubles of the caller's C; the kernel
\* is applied once to (target, B); the copy back happens only with a
\* scratch buffer, copies its first M x N doubles to C and leaves the other
\* elements of C alone.
C11_ExecuteStepOrder ==
    [][ \A t \in Threads :
          LET c == thr[t]
              d == thr'[t]
          IN
          /\ d.pc # c.pc =>
                <<c.pc, d.pc>> \in {<<"idle", "selected">>,
                                    <<"done", "selected">>,
                                    <<"selected", "zeroed">>,
                                    <<"zeroed", "kernel_done">>,
                                    <<"kernel_done", "done">>}
          /\ (d.pc = "selected" /\ c.pc # "selected") =>
                /\ d.target = IF heap.rec[d.h].internal_C # Null
                              THEN "scratch" ELSE "C"
                /\ d.C = d.Cpre
                /\ heap' = heap
          /\ (c.pc = "selected" /\ d.pc = "zeroed") =>
                LET h == heap.rec[c.h]
                IN /\ ~ub'
                   /\ IF c.target = "scratch"
                      THEN /\ Len(ScratchOf(heap, c)) = h.M_padded * h.N
                           /\ ScratchOf(heap', c)
                                = [e \in 1..(h.M_padded * h.N) |-> 0]
                           /\ d.C = c.C
                      ELSE /\ heap' = heap
                           /\ d.C = [e \in 1..Len(c.C) |->
                                       IF e <= h.M * h.N THEN 0 ELSE c.C[e]]
          /\ (c.pc = "zeroed" /\ d.pc = "kernel_done") =>
                /\ ~ub'
                /\ IF c.target = "scratch"
                   THEN /\ ScratchOf(heap', c)
                             = Kernel(heap.mm[c.h], ScratchOf(heap, c), c.b)
                        /\ d.C = c.C
                   ELSE /\ heap' = heap
                        /\ d.C = Kernel(heap.mm[c.h], c.C, c.b)
          /\ (c.pc = "kernel_done" /\ d.pc = "done") =>
                LET h == heap.rec[c.h]
                IN /\ ~ub'
                   /\ heap' = heap
                   /\ IF c.target = "scratch"
                      THEN /\ d.steps = <<"select", "zeroed", "kernel_done",
                                          "copy_back">>
                           /\ d.C = [e \in 1..Len(c.C) |->
                                       IF e <= h.M * h.N
                                       THEN ScratchOf(heap, c)[e]
                                       ELSE c.C[e]]
                      ELSE /\ d.steps = <<"select", "zeroed", "kernel_done">>
                           /\ d.C = c.C ]_vars

\* an execute call on a handle for M_R rows went through its four steps and
\* left a product that is not zero in the caller's C
C11_Witness ==
    \E t \in Threads :
        /\ thr[t].pc = "done" /\ thr[t].m = M_R
        /\ thr[t].target = "scratch"
        /\ thr[t].steps = <<"select", "zeroed", "kernel_done", "copy_back">>
        /\ \E e \in 1..(M_R * N) : thr[t].C[e] # 0 /\ thr[t].C[e] < 100

\* C12: while a handle is live (from the create that returned it to its
\* destroy) its record keeps M, K, N, M_padded, the executor reference and
\* the scratch-buffer reference, and its executor is not altered, whatever
\* steps of whatever execute calls are taken; a step of an execute call
\* changes no handle record and no executor at all.
C12_HandleImmutable ==
    [][ /\ \A h \in Handles :
              (heap.rec[h].status = "live" /\ heap'.rec[h].status = "live") =>
                  /\ heap'.rec[h] = heap.rec[h]
                  /\ heap'.mm[h] = heap.mm[h]
        /\ (\E t \in Threads : thr'[t].steps # thr[t].steps) =>
              /\ heap'.rec = heap.rec
              /\ heap'.mm = heap.mm ]_vars

\* both threads have completed an execute call on the same live handle,
\* whose record is as create wrote it
C12_Witness ==
    \E h \in Handles :
        /\ heap.rec[h] = [status |-> "live", matmul |-> h, M |-> M_R,
                          K |-> K, N |-> N, M_padded |-> 2 * M_R,
                          internal_C |-> h]
        /\ \A t \in Threads : thr[t].pc = "done" /\ thr[t].h = h

\* the C a call with B = b leaves when it runs alone on a fresh handle for
\* the matrix with m rows
Alone(m, b) ==
    LET r == InitEff(CsrVals(MaxNnz), StepIdx(m, K), StepPtr(m), m, K, N,
                     "none", 0)
    IN ExecuteEff("h", r.rec, r.mm, r.scratch,
                  StaleBuf((m + ExtraRows) * N, 0), b).C

\* C13: two live handles never have the same scratch buffer or the same
\* executor; a step of an execute call writes no scratch buffer but its own
\* handle's and no C but its own; create and destroy of one handle leave the
\* record, the executor and the scratch buffer of the other as they are;
\* and an execute call that no call on the same handle overlaps leaves in C
\* what it leaves when run alone, however the calls on the other handle
\* interleave with it.
C13_DistinctHandlesIndependent ==
    [][ /\ \A g, h \in Handles :
              (g # h /\ heap'.rec[g].status = "live"
                     /\ heap'.rec[h].status = "live") =>
                  /\ heap'.rec[g].internal_C # heap'.rec[h].internal_C
                  /\ heap'.rec[g].matmul # heap'.rec[h].matmul
        /\ \A t \in Threads :
              thr'[t].steps # thr[t].steps =>
                  /\ \A a \in Handles :
                        a # heap.rec[thr'[t].h].internal_C =>
                            heap'.buf[a] = heap.buf[a]
                  /\ \A u \in Threads \ {t} : thr'[u].C = thr[u].C
        /\ \A h \in Handles :
              heap'.rec[h].status # heap.rec[h].status =>
                  \A g \in Handles \ {h} :
                      /\ heap'.rec[g] = heap.rec[g]
                      /\ heap'.mm[g] = heap.mm[g]
                      /\ heap.rec[g].status = "live" =>
                            heap'.buf[heap.rec[g].internal_C]
                                = heap.buf[heap.rec[g].internal_C]
        /\ \A t \in Threads :
              (thr'[t].pc = "done" /\ ~thr'[t].shared) =>
                  thr'[t].C = Alone(thr'[t].m, thr'[t].b) ]_vars

\* two execute calls on distinct handles, for matrices of different sizes
\* and with different B, are both between their kernel step and their copy
\* back, each scratch buffer holding its own product
C13_Witness ==
    /\ thr["1"].pc = "kernel_done" /\ thr["2"].pc = "kernel_done"
    /\ thr["1"].h # thr["2"].h
    /\ thr["1"].m # thr["2"].m
    /\ thr["1"].b # thr["2"].b
    /\ \A t \in Threads :
          \E e \in 1..(thr[t].m * N) : ScratchOf(heap, thr[t])[e] # 0

\* the product A x B for the matrix with m rows, in the first m rows of c
IsProduct(c, m, b) ==
    \A i \in 0..(m - 1), j \in 0..(N - 1) :
        c[i * N + j + 1]
            = RefSpMM(CsrVals(MaxNnz), StepIdx(m, K), StepPtr(m), b, N, i, j)

\* C14: spmm_spreg_execute takes no lock: a thread can enter a call on a
\* handle while another thread is inside a call on the same handle; and a
\* call that no call on the same handle overlaps (the caller serializes)
\* leaves A x B in the first M rows of its C.
C14_SerializedCallsCorrect ==
    /\ \A t \in Threads, h \in Handles :
          (~ub /\ ~Mid(t) /\ heap.rec[h].status = "live") =>
              ENABLED Begin(t, h)
    /\ \A t \in Threads :
          (thr[t].pc = "done" /\ ~thr[t].shared) =>
              IsProduct(thr[t].C, thr[t].m, thr[t].b)

\* two calls with different B interleaved on one handle, and one of them
\* returned with a C that is not its A x B
C14_Witness ==
    \E t \in Threads : \E u \in Threads \ {t} :
        /\ thr[t].pc = "done" /\ thr[t].shared
        /\ thr[u].pc # "idle" /\ thr[u].h = thr[t].h
        /\ thr[u].b # thr[t].b
        /\ ~IsProduct(thr[t].C, thr[t].m, thr[t].b)

\* C15: every handle a successful spmm_spreg_init returns (M > 0) has a
\* scratch buffer, M_padded being different from M; no call ever takes the
\* branch that leaves internal_C null or runs the memset or the kernel on
\* the caller's C; an execute call on the handle runs the kernel on the
\* scratch buffer and writes C only by copying the first M x N doubles of
\* the scratch buffer.
C15_ScratchAlwaysPresent ==
    /\ rec.status = "live" =>
          /\ rec.M_padded # rec.M
          /\ rec.internal_C # Null
          /\ scratch.status = "live"
    /\ ((op = "init" /\ ret = "h")
        \/ (op = "run_once" /\ Happened("got_handle"))) =>
          Happened("aligned_alloc")
    /\ ~Happened("memset_C") /\ ~Happened("kernel_C")
    /\ (Executed /\ ~ub) =>
          /\ Happened("memset_scratch")
          /\ Happened("kernel_scratch")
          /\ Happened("memcpy_C")
    /\ (op = "execute" /\ arg # Null /\ ~ub) =>
          C = [e \in 1..Len(Cpre) |->
                 IF e <= M * N THEN scratch.data[e] ELSE Cpre[e]]

\* an execute call on a handle for M_R rows, a multiple of M_R, ran the
\* kernel on the scratch buffer of 2 * M_R rows and copied back a product
\* that is not zero
C15_Witness ==
    /\ op = "execute" /\ arg # Null /\ ~ub
    /\ M = M_R
    /\ rec.internal_C # Null
    /\ Len(scratch.data) = 2 * M_R * N
    /\ events = <<"memset_scratch", "kernel_scratch", "memcpy_C">>
    /\ \E e \in 1..(M * N) : C[e] # 0 /\ C[e] # Cpre[e]

\* C16 (as claimed): when spmm_spreg_init returns null, the executor, the
\* handle record and the scratch buffer have been released or were never
\* created: nothing the call allocated is still allocated.
C16_NullLeavesNothing ==
    (op = "init" /\ ret = Null) =>
        /\ mm.status # "live"
        /\ rec.status # "live"
        /\ scratch.status # "live"

\* C17 (as claimed): for all M, N > 0 that create accepts, no int
\* expression of the size computations leaves the int range: M_padded is
\* M + (4 - M mod 4), the scratch allocation holds M_padded x N doubles, the
\* zeroing covers M_padded x N doubles and the copy back M x N doubles, so
\* neither exceeds the allocation.
C17_CountsExact ==
    op = "sizes" =>
        /\ ~sizes.wrapped
        /\ sizes.M_padded = M + (4 - (M % 4))
        /\ sizes.alloc = sizes.M_padded * N
        /\ sizes.zero = sizes.alloc
        /\ sizes.copy = M * N
        /\ sizes.copy <= sizes.alloc

====
